---- MODULE Spec2Model ----
(***************************************************************************)
(* Transcoding orchestration of the video streaming platform.              *)
(*                                                                         *)
(* The repository holds three ways of running a transcoding job, each with *)
(* its own queue, and the module has one specification per way:            *)
(*                                                                         *)
(*   SpecList   index.ts (POST /api/v1/transcode pushes on the Redis list  *)
(*              transcoding:queue) and the polling worker of worker.ts     *)
(*              (processQueue / transcodeVideo, lines 1-177);              *)
(*   SpecBull   TranscodingQueue (Bull) with TranscodingWorker.processJob  *)
(*              or SimpleTranscodingWorker.processJob as its processor;    *)
(*   SpecKafka  the Kafka worker of worker.ts (startKafkaConsumer /        *)
(*              transcodeVideo, lines 178-516).                            *)
(*                                                                         *)
(* All three write the same Status Store and the same on-disk output tree. *)
(* A fourth specification, SpecHls, calls                                  *)
(* HLSPlaylistService.generatePlaylistsFromSegments on its own.  Four more *)
(* look at TranscodingWorker from one side each: SpecValidator (calls of   *)
(* validateTranscodingOutput while jobs are processed), SpecPool (more     *)
(* jobs than slots), SpecHealth (health monitoring) and FairSpecBull       *)
(* (encoders that hang).  FairSpecKafka and FairSpecConsumer are the Kafka *)
(* worker under fair scheduling, the second without the encoders' progress *)
(* lines.                                                                  *)
(***************************************************************************)
EXTENDS Integers, Sequences, FiniteSets, TLC

----------------------------------------------------------------------------
(* Bounds of the model *)

\* submissions (POST, addJob, produced messages) per jobId
MaxSubmits == 2

JobIds == {"j1", "j2", "j3"}

\* the jobs submitted through index.ts, the Kafka topic and direct calls
ClientJobIds == {"j1", "j2"}

\* the jobs sent through the Bull queue
BullJobIds == {"j1"}

\* messages on the Kafka jobs topic
MaxMessages == 2

\* worker.ts processes of the Redis-list deployment (start-platform.js
\* starts a primary and an additional worker)
Workers == {"w1", "w2"}

NoJob == "none"

----------------------------------------------------------------------------
(* Quality catalog: worker.ts:45-76 / 240-274 *)

QualityNames == {"360p", "720p", "1080p"}

Catalog ==
  << [name |-> "360p",  w |-> 640,  h |-> 360,  bitrate |-> 800],
     [name |-> "720p",  w |-> 1280, h |-> 720,  bitrate |-> 1400],
     [name |-> "1080p", w |-> 1920, h |-> 1080, bitrate |-> 2800] >>

\* Source files a job can point at: exists = FALSE is a missing input file,
\* probe = FALSE a file whose metadata ffprobe cannot read.
Sources ==
  { [exists |-> TRUE,  probe |-> TRUE,  w |-> 1920, h |-> 1080],
    [exists |-> TRUE,  probe |-> TRUE,  w |-> 1024, h |-> 576],
    [exists |-> TRUE,  probe |-> TRUE,  w |-> 854,  h |-> 480],
    [exists |-> TRUE,  probe |-> TRUE,  w |-> 320,  h |-> 180],
    [exists |-> TRUE,  probe |-> TRUE,  w |-> 1080, h |-> 1920],
    [exists |-> TRUE,  probe |-> FALSE, w |-> 0,    h |-> 0],
    [exists |-> FALSE, probe |-> FALSE, w |-> 0,    h |-> 0] }

NoSource == [exists |-> FALSE, probe |-> FALSE, w |-> 0, h |-> 0]

----------------------------------------------------------------------------
VARIABLES
  \* shared by the three deployments
  statusStore,     \* Redis key transcoding:status:<jobId> / JobStatusService
  disk,            \* output tree of a job: master.m3u8 and <quality>/playlist.m3u8
  jobSrc,          \* the input file a job's inputPath points at
  playlistResult,  \* per jobId: what generatePlaylistsFromSegments returned last
  \* index.ts + worker.ts (Redis list)
  apiRedisClient,  \* index.ts redisClient: "boot", "unset" or "ready"
  queueList,       \* Redis list transcoding:queue, left end first
  posts,           \* per jobId: POST requests handled
  lastResponse,    \* the last HTTP response of POST /api/v1/transcode
  ackCount,        \* per jobId: responses {success: true, status: 'queued'}
  delivered,       \* per jobId: elements handed out by brPop
  wRedisClient,    \* worker.ts redisClient of each worker process
  wpc,             \* position of each worker process
  wJob,            \* the job a worker process holds
  \* TranscodingQueue (Bull) with its processor
  workerKind,      \* the class whose processJob is registered with the queue
  bullState,       \* per jobId: absent, waiting, active, delayed, completed, failed
  attemptsMade,    \* Bull's job.attemptsMade
  addCalls,        \* per jobId: calls of addJob
  jobQualities,    \* job.data.qualities
  ffmpegCommand,   \* the encoder run of the job: final resolution, bitrate, last percentage
  ppc,             \* position of processJob in an active job
  validQualities,  \* transcodeMultiQuality: the filtered list
  qIdx,            \* transcodeMultiQuality: index of the quality being encoded
  lastError,       \* the TranscodingError handleError returned last for the job
  errorSeen,       \* per jobId: the error types of its failed attempts
  retryAnnounced,  \* processJob logged 'will be retried' in its last catch
  processedJobs,   \* TranscodingWorker.processedJobs
  failedJobs,      \* TranscodingWorker.failedJobs
  \* worker.ts (Kafka)
  kRedisClient,    \* worker.ts redisClient of the Kafka worker
  kConsumers,      \* worker.ts: the consumers whose run() has been started
  kpc,             \* position of the Kafka worker process
  topic,           \* messages of video.transcoding.jobs, by offset
  kOffset,         \* offset of the next message eachMessage receives
  kEnc,            \* per delivered message: the three ffmpeg child processes
  kCompleted,      \* per delivered message: completedQualities
  readySent,       \* per jobId: messages sent to video.streaming.ready
  kPercent,        \* per delivered message: the percentage each running encoder printed last
  \* callers of FFmpegService.validateTranscodingOutput
  validation,      \* per jobId: how the last call of the validator on its tree ended
  \* TranscodingWorker health monitoring and what it looks at
  isHealthy,       \* TranscodingWorker.isHealthy
  lastHeartbeat,   \* age of TranscodingWorker.lastHeartbeat, in heartbeat intervals
  binaryReachable, \* whether the ffmpeg binary can be executed
  clientStatus,    \* queue.getQueue().client.status
  sinceCheck       \* heartbeat intervals since the health-check timer ran last

listVars == << apiRedisClient, queueList, posts, lastResponse, ackCount,
               delivered, wRedisClient, wpc, wJob >>

sharedVars == << statusStore, disk, jobSrc, playlistResult >>

bullVars == << workerKind, bullState, attemptsMade, addCalls, jobQualities, ffmpegCommand,
               ppc, validQualities, qIdx, lastError, errorSeen, retryAnnounced,
               processedJobs, failedJobs >>

kafkaVars == << kRedisClient, kConsumers, kpc, topic, kOffset, kEnc, kCompleted, readySent, kPercent >>

healthVars == << isHealthy, lastHeartbeat, binaryReachable, clientStatus, sinceCheck >>

vars == << sharedVars, listVars, bullVars, kafkaVars, validation, healthVars >>

----------------------------------------------------------------------------
(* Status Store and output tree *)

Terminal == {"completed", "failed"}

\* the error field of a status entry: class and message text
StatusError(type, message) == [type |-> type, message |-> message]

NoStatusError == StatusError("none", "none")

NoStatus == [status |-> "unknown", progress |-> 0, error |-> NoStatusError]

NoError == [type |-> "none", message |-> "none", retryable |-> FALSE]

StatusValue(s, p, e) == [status |-> s, progress |-> p, error |-> e]

\* entries is the content of master.m3u8: one record per #EXT-X-STREAM-INF
\* line with the URI line that follows it, in file order.
EmptyTree ==
  [master |-> FALSE, refs |-> {}, entries |-> << >>,
   pl |-> [q \in QualityNames |-> "none"]]

\* generatePlaylistsFromSegments has not returned anything for the job yet
NoResult == [returned |-> FALSE, qualityPlaylists |-> {}]

Occurrences(seq, x) == Cardinality({i \in 1..Len(seq) : seq[i] = x})

SharedInit ==
  /\ statusStore = [j \in JobIds |-> NoStatus]
  /\ disk = [j \in JobIds |-> EmptyTree]
  /\ jobSrc = [j \in JobIds |-> NoSource]
  /\ playlistResult = [j \in JobIds |-> NoResult]

----------------------------------------------------------------------------
(* index.ts: the submission API on the Redis list *)

ListInit ==
  /\ apiRedisClient = "boot"
  /\ queueList = << >>
  /\ posts = [j \in JobIds |-> 0]
  /\ lastResponse = [jobId |-> NoJob, code |-> "none"]
  /\ ackCount = [j \in JobIds |-> 0]
  /\ delivered = [j \in JobIds |-> 0]
  /\ wRedisClient = [w \in Workers |-> "boot"]
  /\ wpc = [w \in Workers |-> "boot"]
  /\ wJob = [w \in Workers |-> NoJob]

\* initRedis of index.ts: createClient and connect inside one try; when the
\* try throws before the assignment the variable stays undefined.
initRedis ==
  /\ apiRedisClient = "boot"
  /\ \E outcome \in {"ready", "unset"} : apiRedisClient' = outcome
  /\ UNCHANGED << bullVars, kafkaVars, validation, healthVars >>
  /\ UNCHANGED << sharedVars, queueList, posts, lastResponse, ackCount,
                  delivered, wRedisClient, wpc, wJob >>

\* POST /api/v1/transcode.  complete: the body carries jobId, inputPath and
\* outputPath; pushOk: lPush resolves (it rejects on a Redis error).
PostTranscode(j, complete, pushOk) ==
  /\ apiRedisClient # "boot"
  /\ posts[j] < MaxSubmits
  /\ posts' = [posts EXCEPT ![j] = @ + 1]
  /\ IF ~complete
       THEN /\ lastResponse' = [jobId |-> j, code |-> "400"]
            /\ UNCHANGED << queueList, ackCount >>
       ELSE IF apiRedisClient = "ready" /\ ~pushOk
         THEN /\ lastResponse' = [jobId |-> j, code |-> "500"]
              /\ UNCHANGED << queueList, ackCount >>
         ELSE /\ queueList' = IF apiRedisClient = "ready"
                                THEN << j >> \o queueList
                                ELSE queueList
              /\ lastResponse' = [jobId |-> j, code |-> "queued"]
              /\ ackCount' = [ackCount EXCEPT ![j] = @ + 1]
  /\ UNCHANGED << bullVars, kafkaVars, validation, healthVars >>
  /\ UNCHANGED << sharedVars, apiRedisClient, delivered, wRedisClient, wpc, wJob >>

----------------------------------------------------------------------------
(* worker.ts, lines 1-177: the polling worker on the Redis list *)

\* startWorker: initRedis of the worker process, then the polling loop
startWorker(w) ==
  /\ wpc[w] = "boot"
  /\ \E outcome \in {"ready", "unset"} :
       wRedisClient' = [wRedisClient EXCEPT ![w] = outcome]
  /\ wpc' = [wpc EXCEPT ![w] = "idle"]
  /\ UNCHANGED << bullVars, kafkaVars, validation, healthVars >>
  /\ UNCHANGED << sharedVars, apiRedisClient, queueList, posts, lastResponse,
                  ackCount, delivered, wJob >>

\* processQueue: brPop takes the right end of the list, then transcodeVideo
\* starts: status 'processing', output directories, three encoders spawned.
processQueue(w) ==
  /\ wpc[w] = "idle"
  /\ wRedisClient[w] = "ready"
  /\ Len(queueList) > 0
  /\ LET j == queueList[Len(queueList)] IN
       /\ queueList' = SubSeq(queueList, 1, Len(queueList) - 1)
       /\ delivered' = [delivered EXCEPT ![j] = @ + 1]
       /\ wJob' = [wJob EXCEPT ![w] = j]
       /\ statusStore' = [statusStore EXCEPT ![j] = StatusValue("processing", 0, NoStatusError)]
  /\ wpc' = [wpc EXCEPT ![w] = "transcoding"]
  /\ UNCHANGED << bullVars, kafkaVars, validation, healthVars >>
  /\ UNCHANGED << disk, jobSrc, playlistResult, apiRedisClient, posts, lastResponse, ackCount,
                  wRedisClient >>

\* transcodeVideo of the polling worker after await Promise.all: every
\* encoder exited 0 (ok), or the first one that did not rejects the promise
\* and the catch writes 'failed' without rethrowing.
listTranscodeSettle(w, ok, failing) ==
  /\ wpc[w] = "transcoding"
  /\ LET j == wJob[w] IN
       IF ok
         THEN /\ disk' = [disk EXCEPT ![j].pl = [q \in QualityNames |-> "complete"]]
              /\ statusStore' = [statusStore EXCEPT ![j] = StatusValue("completed", 100, NoStatusError)]
         ELSE /\ disk' = [disk EXCEPT ![j].pl[failing] = "partial"]
              /\ statusStore' = [statusStore EXCEPT ![j] =
                                   StatusValue("failed", 0, StatusError("none", "FFmpeg failed with code 1"))]
  /\ wpc' = [wpc EXCEPT ![w] = "idle"]
  /\ wJob' = [wJob EXCEPT ![w] = NoJob]
  /\ UNCHANGED << bullVars, kafkaVars, validation, healthVars >>
  /\ UNCHANGED << jobSrc, playlistResult, apiRedisClient, queueList, posts, lastResponse,
                  ackCount, delivered, wRedisClient >>

\* The worker process dies (kill, out of memory, host failure).  The job it
\* took with brPop is in no Redis structure any more.
workerCrash(w) ==
  /\ wpc[w] \in {"idle", "transcoding"}
  /\ wpc' = [wpc EXCEPT ![w] = "crashed"]
  /\ UNCHANGED << bullVars, kafkaVars, validation, healthVars >>
  /\ UNCHANGED << sharedVars, apiRedisClient, queueList, posts, lastResponse,
                  ackCount, delivered, wRedisClient, wJob >>

\* The process is started again: module state is fresh.
workerRestart(w) ==
  /\ wpc[w] = "crashed"
  /\ wpc' = [wpc EXCEPT ![w] = "boot"]
  /\ wJob' = [wJob EXCEPT ![w] = NoJob]
  /\ wRedisClient' = [wRedisClient EXCEPT ![w] = "boot"]
  /\ UNCHANGED << bullVars, kafkaVars, validation, healthVars >>
  /\ UNCHANGED << sharedVars, apiRedisClient, queueList, posts, lastResponse,
                  ackCount, delivered >>

\* GET /api/v1/status/:jobId: 'unknown' without a client or without the key
\* transcoding:status:<jobId>, else the stored entry; the operator gives the
\* status the caller reads from the response.
GetStatus(j) ==
  IF apiRedisClient = "ready" /\ statusStore[j] # NoStatus
    THEN statusStore[j].status
    ELSE "unknown"

ListNext ==
  \/ initRedis
  \/ \E j \in ClientJobIds, complete \in BOOLEAN, pushOk \in BOOLEAN :
       PostTranscode(j, complete, pushOk)
  \/ \E w \in Workers : startWorker(w)
  \/ \E w \in Workers : processQueue(w)
  \/ \E w \in Workers, ok \in BOOLEAN, failing \in QualityNames :
       listTranscodeSettle(w, ok, failing)
  \/ \E w \in Workers : workerCrash(w)
  \/ \E w \in Workers : workerRestart(w)

----------------------------------------------------------------------------
(* error-handler.service.ts: classification and recovery strategy *)

\* The substrings handleError looks for in error.message.
Signatures ==
  {"ENOENT", "not found", "ENOSPC", "disk", "ffmpeg", "codec", "timeout", "ETIMEDOUT"}

\* An error is its message text and the signatures the text contains.
ErrProbe      == [text |-> "ffprobe exited with code 1", sig |-> {}]
ErrNoValid    == [text |-> "No valid qualities found for input video resolution", sig |-> {}]
ErrEncoder    == [text |-> "ffmpeg exited with code 1", sig |-> {"ffmpeg"}]
ErrNoSpace    == [text |-> "ENOSPC: no space left on device", sig |-> {"ENOSPC"}]
ErrNoPlaylist == [text |-> "Playlist file was not created", sig |-> {}]
ErrInputNotFound == [text |-> "Input file not found", sig |-> {"not found"}]
ErrCodecNotFound ==
  [text |-> "ffmpeg exited with code 1: Decoder (codec hevc) not found for input stream",
   sig  |-> {"ffmpeg", "codec", "not found"}]

\* handleError: the first matching branch decides type and retryable
handleError(error) ==
  IF "ENOENT" \in error.sig \/ "not found" \in error.sig
    THEN [type |-> "FILE_NOT_FOUND", message |-> error.text, retryable |-> FALSE]
  ELSE IF "ENOSPC" \in error.sig \/ "disk" \in error.sig
    THEN [type |-> "DISK_SPACE_ERROR", message |-> error.text, retryable |-> TRUE]
  ELSE IF "ffmpeg" \in error.sig \/ "codec" \in error.sig
    THEN [type |-> "TRANSCODING_ERROR", message |-> error.text, retryable |-> TRUE]
  ELSE IF "timeout" \in error.sig \/ "ETIMEDOUT" \in error.sig
    THEN [type |-> "TIMEOUT_ERROR", message |-> error.text, retryable |-> TRUE]
  ELSE [type |-> "UNKNOWN_ERROR", message |-> error.text, retryable |-> FALSE]

getRecoveryStrategy(type) ==
  CASE type = "DISK_SPACE_ERROR"  -> [maxRetries |-> 1, backoffMs |-> 60000]
    [] type = "TIMEOUT_ERROR"     -> [maxRetries |-> 2, backoffMs |-> 30000]
    [] type = "TRANSCODING_ERROR" -> [maxRetries |-> 3, backoffMs |-> 10000]
    [] OTHER                      -> [maxRetries |-> 1, backoffMs |-> 5000]

----------------------------------------------------------------------------
(* ffmpeg.service.ts: quality filter, progress arithmetic, validator *)

\* the filter with the comparison > in place of >=
RetainedStrict(src, q) == src.w * 10 > 8 * q.w /\ src.h * 10 > 8 * q.h

\* transcodeMultiQuality, the filter: inputWidth / targetWidth >= 0.8 and
\* inputHeight / targetHeight >= 0.8 on integers.
Retained(src, q) == src.w * 10 >= 8 * q.w /\ src.h * 10 >= 8 * q.h

\* greatest common divisor, used to write the scale factor
\* (iw * ih) / (tw * th) of transcodeQuality in lowest terms
RECURSIVE GCD(_, _)
GCD(a, b) == IF b = 0 THEN a ELSE GCD(b, a % b)

\* Math.round(bitrate * scaleFactor) with scaleFactor = inputPixels /
\* targetPixels, the fraction taken in lowest terms so that the products
\* stay within the checker's integers
ScaledBitrate(bitrate, inputPixels, targetPixels) ==
  LET g == GCD(inputPixels, targetPixels)
      n == inputPixels \div g
      d == targetPixels \div g
  IN (2 * bitrate * n + d) \div (2 * d)

\* transcodeQuality without the adjustment for a smaller input
FinalSettingsNoAdjust(src, q) ==
  [w |-> q.w, h |-> q.h, bitrate |-> q.bitrate, percent |-> 0]

\* transcodeQuality before the encoder is started: the target resolution and
\* bitrate, or the input's resolution and a bitrate scaled by the pixel
\* ratio, Math.round(bitrate * (iw * ih) / (tw * th)), when the input is
\* smaller than the target in width or height.
FinalSettings(src, q) ==
  LET smaller == src.w < q.w \/ src.h < q.h IN
    [w |-> IF smaller THEN src.w ELSE q.w,
     h |-> IF smaller THEN src.h ELSE q.h,
     bitrate |-> IF smaller
                   THEN ScaledBitrate(q.bitrate, src.w * src.h, q.w * q.h)
                   ELSE q.bitrate,
     percent |-> 0]

\* no encoder has been started for the job
NoCommand == [w |-> 0, h |-> 0, bitrate |-> 0, percent |-> 0]

FilterQualities(src, qualities) ==
  LET Keep(q) == Retained(src, q) IN SelectSeq(qualities, Keep)

NamesOf(qualities) == {qualities[i].name : i \in 1..Len(qualities)}

\* transcodeMultiQuality, the progress callback:
\* Math.round((i / n) * 100 + percent / n) for the 0-based index i of n
OverallProgress(i, n, percent) == (2 * (i * 100 + percent) + n) \div (2 * n)

\* the validator without the continue after a missing playlist: the
\* segment count of the missing quality is reported as well
validateTranscodingOutputNoContinue(tree, qualities) ==
  LET masterIssues ==
        IF tree.master THEN {}
        ELSE {[kind |-> "Master playlist (master.m3u8) not found", quality |-> "none"]}
      qualityIssues ==
        {[kind |-> "Playlist not found", quality |-> q] :
           q \in {n \in NamesOf(qualities) : tree.pl[n] = "none"}}
        \cup
        {[kind |-> "No segments found", quality |-> q] :
           q \in {n \in NamesOf(qualities) : tree.pl[n] = "none"}}
        \cup
        {[kind |-> "Invalid playlist format", quality |-> q] :
           q \in {n \in NamesOf(qualities) : tree.pl[n] = "partial"}}
      issues == masterIssues \cup qualityIssues
  IN [valid |-> issues = {}, issues |-> issues]

\* validateTranscodingOutput, the try block: one issue for a missing
\* master.m3u8 and, per quality of the list, one issue for a missing
\* playlist (the loop continues with the next quality) or for a playlist
\* without its #EXT-X-ENDLIST
validateTranscodingOutput(tree, qualities) ==
  LET masterIssues ==
        IF tree.master THEN {}
        ELSE {[kind |-> "Master playlist (master.m3u8) not found", quality |-> "none"]}
      qualityIssues ==
        {[kind |-> "Playlist not found", quality |-> q] :
           q \in {n \in NamesOf(qualities) : tree.pl[n] = "none"}}
        \cup
        {[kind |-> "Invalid playlist format", quality |-> q] :
           q \in {n \in NamesOf(qualities) : tree.pl[n] = "partial"}}
      issues == masterIssues \cup qualityIssues
  IN [valid |-> issues = {}, issues |-> issues]

\* validateTranscodingOutput, the catch block: a file-system call rejected
validateTranscodingOutputCatch ==
  [valid |-> FALSE, issues |-> {[kind |-> "Validation failed", quality |-> "none"]}]

\* processJob: new Error(`Transcoding validation failed: ${issues.join(', ')}`)
ErrValidation(issues) ==
  [text |-> "Transcoding validation failed",
   sig  |-> IF \E i \in issues : i.kind \in {"Master playlist (master.m3u8) not found",
                                              "Playlist not found"}
              THEN {"not found"} ELSE {}]

----------------------------------------------------------------------------
(* hls-playlist.service.ts: master manifest *)

\* createMasterPlaylistContent: for each quality of the list, in list order,
\* `#EXT-X-STREAM-INF:BANDWIDTH=${bitrate},RESOLUTION=${resolution}` and
\* `${name}/playlist.m3u8`.
createMasterPlaylistContent(qualities) ==
  [i \in 1..Len(qualities) |->
     [name |-> qualities[i].name, bandwidth |-> qualities[i].bitrate,
      w |-> qualities[i].w, h |-> qualities[i].h]]

\* generateMasterPlaylist: master.m3u8 is written with that content
generateMasterPlaylist(tree, qualities) ==
  [tree EXCEPT !.master = TRUE,
               !.entries = createMasterPlaylistContent(qualities),
               !.refs = NamesOf(qualities)]

\* generatePlaylistsFromSegments, the loop after the master is written: the
\* qualities whose playlist.m3u8 exists
QualityPlaylists(tree, qualities) ==
  {n \in NamesOf(qualities) : tree.pl[n] # "none"}

\* generatePlaylistsFromSegments(outputPath, qualities) on the tree of job j
GeneratePlaylists(j, qualities) ==
  /\ disk' = [disk EXCEPT ![j] = generateMasterPlaylist(disk[j], qualities)]
  /\ playlistResult' = [playlistResult EXCEPT ![j] =
        [returned |-> TRUE, qualityPlaylists |-> QualityPlaylists(disk[j], qualities)]]

----------------------------------------------------------------------------
(* transcoding-queue.ts: TranscodingQueue (Bull) and TranscodingWorker *)

\* defaultJobOptions.attempts
attempts == 3

\* defaultJobOptions.backoff.delay, type 'exponential'
backoffDelay == 2000

\* config.transcoding.concurrentJobs
concurrentJobs == 2

\* The percentages an encoder reports through the 'progress' event:
\* Math.round(progress.percent || 0), passed on as it is.  fluent-ffmpeg
\* derives progress.percent from the output's timemark and the input's
\* duration, and the timemark of the last report can lie past the duration.
ProgressPoints == {50, 100, 102}

\* the positions (currentTime / duration) * 100 the handlers of worker.ts
\* compute from an encoder's time= lines
KafkaPercents == {50, 100}

\* job.data.qualities of a submitted job
RequestedLists ==
  {Catalog, SubSeq(Catalog, 1, 1), << Catalog[3], Catalog[1], Catalog[2] >>}

WorkerKinds == {"TranscodingWorker", "SimpleTranscodingWorker"}

\* the ways a run of transcodeQuality ends
EncoderOutcomes == {"ok", "exit1", "enospc", "noplaylist", "nocodec"}

\* The queue after construction, with one of the worker classes listening;
\* quals is the list a job carries before it is submitted.
BullInitial(kinds, quals) ==
  /\ workerKind \in kinds
  /\ bullState = [j \in JobIds |-> "absent"]
  /\ attemptsMade = [j \in JobIds |-> 0]
  /\ addCalls = [j \in JobIds |-> 0]
  /\ jobQualities = [j \in JobIds |-> quals]
  /\ ffmpegCommand = [j \in JobIds |-> NoCommand]
  /\ ppc = [j \in JobIds |-> "none"]
  /\ validQualities = [j \in JobIds |-> << >>]
  /\ qIdx = [j \in JobIds |-> 0]
  /\ lastError = [j \in JobIds |-> NoError]
  /\ errorSeen = [j \in JobIds |-> {}]
  /\ retryAnnounced = [j \in JobIds |-> FALSE]
  /\ processedJobs = 0
  /\ failedJobs = 0

ActiveJobs == {j \in JobIds : bullState[j] = "active"}

\* a queue that hands out jobs whatever the number of running handlers
SlotFreeAlways == TRUE

\* queue.process(config.transcoding.concurrentJobs, handler): Bull runs at
\* most that many handlers at a time
SlotFree == Cardinality(ActiveJobs) < concurrentJobs

\* Bull's exponential backoff before attempt number made + 1
BackoffBefore(made) == backoffDelay * 2 ^ (made - 1)

\* addJob: queue.add(jobData, {priority, jobId}).  Bull does not add a job
\* whose jobId it already holds.
addJob(j, src, quals) ==
  /\ addCalls[j] < MaxSubmits
  /\ addCalls' = [addCalls EXCEPT ![j] = @ + 1]
  /\ IF bullState[j] = "absent"
       THEN /\ bullState' = [bullState EXCEPT ![j] = "waiting"]
            /\ jobSrc' = [jobSrc EXCEPT ![j] = src]
            /\ jobQualities' = [jobQualities EXCEPT ![j] = quals]
            /\ UNCHANGED << playlistResult, ffmpegCommand >>
       ELSE UNCHANGED << bullState, jobSrc, playlistResult, jobQualities, ffmpegCommand >>
  /\ UNCHANGED << statusStore, disk, attemptsMade, workerKind, ppc, validQualities,
                  qIdx, lastError, errorSeen, retryAnnounced, processedJobs,
                  failedJobs >>
  /\ UNCHANGED << listVars, kafkaVars, validation, healthVars >>

\* What Bull does when the processor's promise rejects: attemptsMade is
\* incremented and the job is retried after the backoff while attemptsMade
\* is below attempts, whatever the error was.
BullFailed(j) ==
  /\ attemptsMade' = [attemptsMade EXCEPT ![j] = @ + 1]
  /\ bullState' = [bullState EXCEPT ![j] =
                     IF attemptsMade[j] + 1 < attempts THEN "delayed" ELSE "failed"]
  /\ ppc' = [ppc EXCEPT ![j] = "none"]
  /\ validQualities' = [validQualities EXCEPT ![j] = << >>]
  /\ qIdx' = [qIdx EXCEPT ![j] = 0]

\* The catch block of TranscodingWorker.processJob, then Bull.
processJobCatch(j, error) ==
  LET transcodingError == handleError(error)
      recoveryStrategy == getRecoveryStrategy(transcodingError.type)
  IN /\ failedJobs' = failedJobs + 1
     /\ lastError' = [lastError EXCEPT ![j] = transcodingError]
     /\ errorSeen' = [errorSeen EXCEPT ![j] = @ \cup {transcodingError.type}]
     /\ statusStore' = [statusStore EXCEPT ![j] =
           StatusValue("failed", 0,
                       StatusError(transcodingError.type, transcodingError.message))]
     /\ retryAnnounced' = [retryAnnounced EXCEPT ![j] =
           transcodingError.retryable /\ attemptsMade[j] < recoveryStrategy.maxRetries]
     /\ BullFailed(j)

\* The delay of a retried job has passed.
bullPromote(j) ==
  /\ bullState[j] = "delayed"
  /\ bullState' = [bullState EXCEPT ![j] = "waiting"]
  /\ UNCHANGED << sharedVars, workerKind, attemptsMade, addCalls, jobQualities, ffmpegCommand, ppc,
                  validQualities, qIdx, lastError, errorSeen, retryAnnounced,
                  processedJobs, failedJobs >>
  /\ UNCHANGED << listVars, kafkaVars, validation, healthVars >>

\* Bull hands a waiting job to a free slot; processJob runs up to
\* updateJobStatus(jobId, 'processing', 0).
processJobStart(j) ==
  /\ workerKind = "TranscodingWorker"
  /\ bullState[j] = "waiting"
  /\ SlotFree
  /\ bullState' = [bullState EXCEPT ![j] = "active"]
  /\ ppc' = [ppc EXCEPT ![j] = "multi"]
  /\ statusStore' = [statusStore EXCEPT ![j] = StatusValue("processing", 0, NoStatusError)]
  /\ UNCHANGED << disk, jobSrc, playlistResult, workerKind, attemptsMade, addCalls, jobQualities, ffmpegCommand,
                  validQualities, qIdx, lastError, errorSeen, retryAnnounced,
                  processedJobs, failedJobs >>
  /\ UNCHANGED << listVars, kafkaVars, validation, healthVars >>

\* transcodeMultiQuality up to the loop: probe the input, filter the list.
transcodeMultiQualityStart(j) ==
  /\ bullState[j] = "active" /\ ppc[j] = "multi"
  /\ IF ~jobSrc[j].exists \/ ~jobSrc[j].probe
       THEN /\ processJobCatch(j, ErrProbe)
            /\ UNCHANGED << disk, processedJobs, ffmpegCommand >>
       ELSE LET valid == FilterQualities(jobSrc[j], jobQualities[j]) IN
            IF Len(valid) = 0
              THEN /\ processJobCatch(j, ErrNoValid)
                   /\ UNCHANGED << disk, processedJobs, ffmpegCommand >>
              ELSE /\ validQualities' = [validQualities EXCEPT ![j] = valid]
                   /\ qIdx' = [qIdx EXCEPT ![j] = 1]
                   /\ ffmpegCommand' = [ffmpegCommand EXCEPT ![j] =
                                          FinalSettings(jobSrc[j], valid[1])]
                   /\ ppc' = [ppc EXCEPT ![j] = "encode"]
                   /\ UNCHANGED << statusStore, disk, bullState, attemptsMade, lastError,
                                   errorSeen, retryAnnounced, processedJobs, failedJobs >>
  /\ UNCHANGED << jobSrc, playlistResult, workerKind, addCalls, jobQualities >>
  /\ UNCHANGED << listVars, kafkaVars, validation, healthVars >>

\* The encoder of the current quality reports a percentage: the callback
\* of processJob writes the overall progress.
encoderProgress(j, percent) ==
  /\ bullState[j] = "active" /\ ppc[j] = "encode"
  /\ statusStore' = [statusStore EXCEPT ![j].progress =
        OverallProgress(qIdx[j] - 1, Len(validQualities[j]), percent)]
  /\ ffmpegCommand' = [ffmpegCommand EXCEPT ![j].percent = percent]
  /\ UNCHANGED << disk, jobSrc, playlistResult, workerKind, bullState, attemptsMade,
                  addCalls, jobQualities, ppc, validQualities, qIdx, lastError,
                  errorSeen, retryAnnounced, processedJobs, failedJobs >>
  /\ UNCHANGED << listVars, kafkaVars, validation, healthVars >>

\* an encoder that appends to the playlist and segments it finds
EncoderOutputAppended(previous) ==
  IF previous = "partial" THEN "accumulated" ELSE "complete"

\* What a quality directory holds after its encoder ended with 'end': the
\* command has no append flag (-hls_playlist_type vod, -hls_flags
\* independent_segments) and writes playlist.m3u8 and segment_%03d.ts from
\* index 0 over whatever an earlier run left there.
EncoderOutput(previous) == "complete"

\* a loop that logs the failure of a quality and goes on with the next one
transcodeQualityEndSwallow(j, outcome) ==
  /\ bullState[j] = "active" /\ ppc[j] = "encode"
  /\ LET q == validQualities[j][qIdx[j]].name IN
       /\ disk' = [disk EXCEPT ![j].pl[q] =
                     IF outcome = "ok" THEN "complete"
                     ELSE IF outcome = "exit1" THEN "partial" ELSE @]
       /\ IF qIdx[j] < Len(validQualities[j])
            THEN /\ qIdx' = [qIdx EXCEPT ![j] = @ + 1]
                 /\ ffmpegCommand' = [ffmpegCommand EXCEPT ![j] =
                       FinalSettings(jobSrc[j], validQualities[j][qIdx[j] + 1])]
                 /\ UNCHANGED ppc
            ELSE /\ ppc' = [ppc EXCEPT ![j] = "playlists"]
                 /\ UNCHANGED << qIdx, ffmpegCommand >>
  /\ UNCHANGED << statusStore, bullState, attemptsMade, validQualities,
                  lastError, errorSeen, retryAnnounced, failedJobs >>
  /\ UNCHANGED << jobSrc, playlistResult, workerKind, addCalls, jobQualities, processedJobs >>
  /\ UNCHANGED << listVars, kafkaVars, validation, healthVars >>

\* transcodeQuality of the current quality ends.
\*   "ok"         ffmpeg 'end' and the playlist exists
\*   "exit1"      ffmpeg 'error': the encoder exited non-zero
\*   "enospc"     the volume is full
\*   "noplaylist" ffmpeg 'end' but playlist.m3u8 does not exist
\*   "nocodec"    ffmpeg 'error': the input's codec cannot be decoded
transcodeQualityEnd(j, outcome) ==
  /\ bullState[j] = "active" /\ ppc[j] = "encode"
  /\ LET q == validQualities[j][qIdx[j]].name IN
       CASE outcome = "ok" ->
              /\ disk' = [disk EXCEPT ![j].pl[q] = EncoderOutput(@)]
              /\ IF qIdx[j] < Len(validQualities[j])
                   THEN /\ qIdx' = [qIdx EXCEPT ![j] = @ + 1]
                        /\ ffmpegCommand' = [ffmpegCommand EXCEPT ![j] =
                              FinalSettings(jobSrc[j], validQualities[j][qIdx[j] + 1])]
                        /\ UNCHANGED ppc
                   ELSE /\ ppc' = [ppc EXCEPT ![j] = "playlists"]
                        /\ UNCHANGED << qIdx, ffmpegCommand >>
              /\ UNCHANGED << statusStore, bullState, attemptsMade, validQualities,
                              lastError, errorSeen, retryAnnounced, failedJobs >>
         [] outcome = "exit1" ->
              /\ disk' = [disk EXCEPT ![j].pl[q] = "partial"]
              /\ processJobCatch(j, ErrEncoder)
              /\ UNCHANGED ffmpegCommand
         [] outcome = "enospc" ->
              /\ UNCHANGED << disk, ffmpegCommand >>
              /\ processJobCatch(j, ErrNoSpace)
         [] outcome = "noplaylist" ->
              /\ disk[j].pl[q] = "none"
              /\ UNCHANGED << disk, ffmpegCommand >>
              /\ processJobCatch(j, ErrNoPlaylist)
         [] outcome = "nocodec" ->
              /\ UNCHANGED << disk, ffmpegCommand >>
              /\ processJobCatch(j, ErrCodecNotFound)
  /\ UNCHANGED << jobSrc, playlistResult, workerKind, addCalls, jobQualities, processedJobs >>
  /\ UNCHANGED << listVars, kafkaVars, validation, healthVars >>

\* The encoder of the current quality stops making progress and never
\* exits: neither 'end' nor 'error' will be emitted, and transcodeQuality
\* sets no timer that would kill it.
encoderHangs(j) ==
  /\ bullState[j] = "active" /\ ppc[j] = "encode"
  /\ ppc' = [ppc EXCEPT ![j] = "hung"]
  /\ UNCHANGED << sharedVars, workerKind, bullState, attemptsMade, addCalls, jobQualities,
                  ffmpegCommand, validQualities, qIdx, lastError, errorSeen,
                  retryAnnounced, processedJobs, failedJobs >>
  /\ UNCHANGED << listVars, kafkaVars, validation, healthVars >>

\* generatePlaylistsFromSegments: the master manifest is written from the
\* filtered list, then transcodeMultiQuality returns.
generatePlaylistsFromSegments(j) ==
  /\ bullState[j] = "active" /\ ppc[j] = "playlists"
  /\ GeneratePlaylists(j, validQualities[j])
  /\ ppc' = [ppc EXCEPT ![j] = "validate"]
  /\ UNCHANGED << statusStore, jobSrc, workerKind, bullState, attemptsMade, addCalls,
                  jobQualities, ffmpegCommand, validQualities, qIdx, lastError, errorSeen,
                  retryAnnounced, processedJobs, failedJobs >>
  /\ UNCHANGED << listVars, kafkaVars, validation, healthVars >>

\* processJob after transcodeMultiQuality: validate against job.data.qualities
\* and complete (the heartbeat is refreshed), or throw the validation error.
processJobValidate(j) ==
  /\ bullState[j] = "active" /\ ppc[j] = "validate"
  /\ LET result == validateTranscodingOutput(disk[j], jobQualities[j]) IN
       IF result.valid
         THEN /\ statusStore' = [statusStore EXCEPT ![j] =
                                   StatusValue("completed", 100, NoStatusError)]
              /\ processedJobs' = processedJobs + 1
              /\ bullState' = [bullState EXCEPT ![j] = "completed"]
              /\ ppc' = [ppc EXCEPT ![j] = "none"]
              /\ validQualities' = [validQualities EXCEPT ![j] = << >>]
              /\ qIdx' = [qIdx EXCEPT ![j] = 0]
              /\ lastHeartbeat' = 0
              /\ UNCHANGED << attemptsMade, lastError, errorSeen, retryAnnounced,
                              failedJobs >>
         ELSE /\ processJobCatch(j, ErrValidation(result.issues))
              /\ UNCHANGED << processedJobs, lastHeartbeat >>
  /\ UNCHANGED << disk, jobSrc, playlistResult, workerKind, addCalls, jobQualities, ffmpegCommand >>
  /\ UNCHANGED << listVars, kafkaVars, validation, isHealthy, binaryReachable, clientStatus,
                  sinceCheck >>

----------------------------------------------------------------------------
(* transcoding-queue.ts: health monitoring of TranscodingWorker *)

\* client.status of the queue's Redis connection
ClientStatuses == {"connecting", "ready", "reconnecting", "end"}

\* the heartbeat timer's interval is 10000 ms; performHealthCheck compares
\* the age of the heartbeat with 60000 ms
heartbeatThreshold == 6

\* the health-check timer's interval is 30000 ms
checkInterval == 3

\* the heartbeat's age is followed up to MaxAge intervals
MaxAge == 7

\* The fields after construction; reachable and statuses are what the
\* worker's surroundings can be at that moment.
HealthInitial(reachable, statuses) ==
  /\ isHealthy = TRUE
  /\ lastHeartbeat = 0
  /\ binaryReachable \in reachable
  /\ clientStatus \in statuses
  /\ sinceCheck = 0

\* FFmpegService.isAvailable: returns true without running the binary
isAvailable == TRUE

\* One heartbeat interval passes; the timers that are due run afterwards,
\* the health check before more time passes.
intervalPasses ==
  /\ lastHeartbeat < MaxAge
  /\ sinceCheck < checkInterval
  /\ lastHeartbeat' = lastHeartbeat + 1
  /\ sinceCheck' = sinceCheck + 1
  /\ UNCHANGED << isHealthy, binaryReachable, clientStatus >>
  /\ UNCHANGED << sharedVars, listVars, bullVars, kafkaVars, validation >>

\* updateHeartbeat: lastHeartbeat = new Date()
updateHeartbeat ==
  /\ lastHeartbeat' = 0
  /\ UNCHANGED << isHealthy, binaryReachable, clientStatus, sinceCheck >>
  /\ UNCHANGED << sharedVars, listVars, bullVars, kafkaVars, validation >>

\* a health check that never sets the flag back to true
performHealthCheckSticky ==
  /\ sinceCheck = checkInterval
  /\ sinceCheck' = 0
  /\ isHealthy' = IF lastHeartbeat > heartbeatThreshold THEN FALSE
                  ELSE IF ~isAvailable THEN FALSE
                  ELSE IF clientStatus # "ready" THEN FALSE
                  ELSE isHealthy
  /\ UNCHANGED << lastHeartbeat, binaryReachable, clientStatus >>
  /\ UNCHANGED << sharedVars, listVars, bullVars, kafkaVars, validation >>

\* performHealthCheck, run by the 30000 ms timer: the heartbeat's age, then
\* isAvailable(), then the client's status; the first failing check sets
\* isHealthy to false, and isHealthy is true when none fails.
performHealthCheck ==
  /\ sinceCheck = checkInterval
  /\ sinceCheck' = 0
  /\ isHealthy' = IF lastHeartbeat > heartbeatThreshold THEN FALSE
                  ELSE IF ~isAvailable THEN FALSE
                  ELSE IF clientStatus # "ready" THEN FALSE
                  ELSE TRUE
  /\ UNCHANGED << lastHeartbeat, binaryReachable, clientStatus >>
  /\ UNCHANGED << sharedVars, listVars, bullVars, kafkaVars, validation >>

\* getHealthStatus: the fields as they are, nothing is checked
getHealthStatus ==
  [healthy |-> isHealthy, processedJobs |-> processedJobs,
   failedJobs |-> failedJobs, lastHeartbeat |-> lastHeartbeat]

\* The ffmpeg binary is removed from, or put back on, the worker's host.
binaryChanges ==
  /\ binaryReachable' = ~binaryReachable
  /\ UNCHANGED << isHealthy, lastHeartbeat, clientStatus, sinceCheck >>
  /\ UNCHANGED << sharedVars, listVars, bullVars, kafkaVars, validation >>

\* The queue's Redis connection changes its status.
clientStatusChanges(status) ==
  /\ status # clientStatus
  /\ clientStatus' = status
  /\ UNCHANGED << isHealthy, lastHeartbeat, binaryReachable, sinceCheck >>
  /\ UNCHANGED << sharedVars, listVars, bullVars, kafkaVars, validation >>

HealthNext ==
  \/ intervalPasses
  \/ updateHeartbeat
  \/ performHealthCheck
  \/ binaryChanges
  \/ \E status \in ClientStatuses : clientStatusChanges(status)

----------------------------------------------------------------------------
(* simple-worker.ts: SimpleTranscodingWorker as the queue's processor *)

\* The tree simple-transcoder leaves behind when it reports success.
SimpleTranscoderTree(withMaster) ==
  [master |-> withMaster,
   refs   |-> IF withMaster THEN QualityNames ELSE {},
   entries |-> IF withMaster
                 THEN [i \in 1..Len(Catalog) |->
                         [name |-> Catalog[i].name, bandwidth |-> Catalog[i].bitrate * 1000,
                          w |-> Catalog[i].w, h |-> Catalog[i].h]]
                 ELSE << >>,
   pl     |-> [q \in QualityNames |-> "complete"]]

\* processJob up to the call of transcodeVideo; a missing input file throws
\* and the catch removes the output directory before Bull sees the error.
simpleProcessJobStart(j) ==
  /\ workerKind = "SimpleTranscodingWorker"
  /\ bullState[j] = "waiting"
  /\ SlotFree
  /\ IF jobSrc[j].exists
       THEN /\ bullState' = [bullState EXCEPT ![j] = "active"]
            /\ ppc' = [ppc EXCEPT ![j] = "simple"]
            /\ UNCHANGED << disk, attemptsMade, validQualities, qIdx >>
       ELSE /\ disk' = [disk EXCEPT ![j] = EmptyTree]
            /\ BullFailed(j)
  /\ UNCHANGED << statusStore, jobSrc, playlistResult, workerKind, addCalls, jobQualities, ffmpegCommand, lastError,
                  errorSeen, retryAnnounced, processedJobs, failedJobs >>
  /\ UNCHANGED << listVars, kafkaVars, validation, healthVars >>

\* transcodeVideo of simple-transcoder returns.
\*   "ok"       result.success and master.m3u8 exists
\*   "nomaster" result.success but master.m3u8 is not there
\*   "fail"     no result, or result.success false, or it threw
simpleTranscodeSettle(j, result) ==
  /\ bullState[j] = "active" /\ ppc[j] = "simple"
  /\ IF result = "ok"
       THEN /\ disk' = [disk EXCEPT ![j] = SimpleTranscoderTree(TRUE)]
            /\ bullState' = [bullState EXCEPT ![j] = "completed"]
            /\ ppc' = [ppc EXCEPT ![j] = "none"]
            /\ UNCHANGED << attemptsMade, validQualities, qIdx >>
       ELSE /\ disk' = [disk EXCEPT ![j] = EmptyTree]
            /\ BullFailed(j)
  /\ UNCHANGED << statusStore, jobSrc, playlistResult, workerKind, addCalls, jobQualities, ffmpegCommand, lastError,
                  errorSeen, retryAnnounced, processedJobs, failedJobs >>
  /\ UNCHANGED << listVars, kafkaVars, validation, healthVars >>

BullNext ==
  \/ \E j \in BullJobIds, src \in Sources, quals \in RequestedLists : addJob(j, src, quals)
  \/ \E j \in BullJobIds : bullPromote(j)
  \/ \E j \in BullJobIds : processJobStart(j)
  \/ \E j \in BullJobIds : transcodeMultiQualityStart(j)
  \/ \E j \in BullJobIds, percent \in ProgressPoints : encoderProgress(j, percent)
  \/ \E j \in BullJobIds, outcome \in EncoderOutcomes :
       transcodeQualityEnd(j, outcome)
  \/ \E j \in BullJobIds : generatePlaylistsFromSegments(j)
  \/ \E j \in BullJobIds : processJobValidate(j)
  \/ \E j \in BullJobIds : simpleProcessJobStart(j)
  \/ \E j \in BullJobIds, result \in {"ok", "nomaster", "fail"} : simpleTranscodeSettle(j, result)

----------------------------------------------------------------------------
(* worker.ts, lines 178-516: the Kafka worker *)

Runs == 1..MaxMessages

\* the input files of the jobs published on the topic
KafkaSources == {src \in Sources : src.w \in {1920, 0} /\ src.probe = src.exists}

KafkaInit ==
  /\ kRedisClient = "boot"
  /\ kConsumers = 0
  /\ kpc = "boot"
  /\ topic = << >>
  /\ kOffset = 1
  /\ kEnc = [r \in Runs |-> [q \in QualityNames |-> "off"]]
  /\ kCompleted = [r \in Runs |-> 0]
  /\ readySent = [j \in JobIds |-> 0]
  /\ kPercent = [r \in Runs |-> [q \in QualityNames |-> 0]]

\* updateProgress: one SET of the whole entry, skipped without a client.
\* Math.round on the progress value is done by the caller's arithmetic below.
updateProgress(store, j, progress) ==
  IF kRedisClient = "ready"
    THEN [store EXCEPT ![j] = StatusValue("processing", progress, NoStatusError)]
    ELSE store

\* Math.round(10 + ((completed + percent / 100) / 3) * 80)
KafkaProgress(completed, percent) ==
  10 + (2 * (completed * 100 + percent) * 4 + 15) \div 30

\* The upload side publishes a job message; the transcoding worker uses the
\* catalog of worker.ts for every job.
produceJob(j, src) ==
  /\ Len(topic) < MaxMessages
  /\ topic' = Append(topic, j)
  /\ jobSrc' = [jobSrc EXCEPT ![j] = src]
  /\ UNCHANGED << statusStore, disk, playlistResult, kRedisClient, kConsumers, kpc, kOffset, kEnc, kCompleted,
                  readySent, kPercent >>
  /\ UNCHANGED << listVars, bullVars, validation, healthVars >>

\* startWorker: initRedis of the worker, then startKafkaConsumer is called
kafkaStartWorker ==
  /\ kpc = "boot"
  /\ \E outcome \in {"ready", "unset"} : kRedisClient' = outcome
  /\ kpc' = "connecting"
  /\ UNCHANGED << sharedVars, kConsumers, topic, kOffset, kEnc, kCompleted, readySent, kPercent >>
  /\ UNCHANGED << listVars, bullVars, validation, healthVars >>

\* startKafkaConsumer: a new consumer and producer are created; connect,
\* subscribe and run start the consumer, or the catch arms the 5 s timer
\* and the consumer created by this call is never run.
startKafkaConsumer(connected) ==
  /\ kpc = "connecting"
  /\ kpc' = IF connected THEN "idle" ELSE "backoff"
  /\ kConsumers' = IF connected THEN kConsumers + 1 ELSE kConsumers
  /\ UNCHANGED << sharedVars, kRedisClient, topic, kOffset, kEnc, kCompleted, readySent, kPercent >>
  /\ UNCHANGED << listVars, bullVars, validation, healthVars >>

\* a catch that gives up: the process ends after the failed connection
retryTimerExit ==
  /\ kpc = "backoff"
  /\ kpc' = "exited"
  /\ UNCHANGED << sharedVars, kRedisClient, kConsumers, topic, kOffset, kEnc, kCompleted, readySent, kPercent >>
  /\ UNCHANGED << listVars, bullVars, validation, healthVars >>

\* setTimeout(startKafkaConsumer, 5000) fires
retryTimer ==
  /\ kpc = "backoff"
  /\ kpc' = "connecting"
  /\ UNCHANGED << sharedVars, kRedisClient, kConsumers, topic, kOffset, kEnc, kCompleted, readySent, kPercent >>
  /\ UNCHANGED << listVars, bullVars, validation, healthVars >>

\* eachMessage receives the next message and transcodeVideo runs up to
\* `await updateProgress(jobId, 0, ...)`.  A missing input file throws: the
\* catch of transcodeVideo writes 'failed' when there is a client and
\* rethrows, the catch of eachMessage logs, the message is consumed.
eachMessage ==
  /\ kpc = "idle"
  /\ kOffset <= Len(topic)
  /\ LET j == topic[kOffset] IN
       IF ~jobSrc[j].exists
         THEN /\ statusStore' =
                   IF kRedisClient = "ready"
                     THEN [statusStore EXCEPT ![j] =
                             StatusValue("failed", 0, StatusError("none", ErrInputNotFound.text))]
                     ELSE statusStore
              /\ kOffset' = kOffset + 1
              /\ UNCHANGED kpc
         ELSE /\ statusStore' = updateProgress(statusStore, j, 0)
              /\ kpc' = "starting"
              /\ UNCHANGED kOffset
  /\ UNCHANGED << disk, jobSrc, playlistResult, kRedisClient, kConsumers, topic, kEnc, kCompleted, readySent, kPercent >>
  /\ UNCHANGED << listVars, bullVars, validation, healthVars >>

\* transcodeVideo: directories, updateProgress(10), the three encoders are
\* spawned and Promise.all is awaited.
transcodeVideoSpawn ==
  /\ kpc = "starting"
  /\ LET j == topic[kOffset] IN
       statusStore' = updateProgress(statusStore, j, 10)
  /\ kEnc' = [kEnc EXCEPT ![kOffset] = [q \in QualityNames |-> "running"]]
  /\ kCompleted' = [kCompleted EXCEPT ![kOffset] = 0]
  /\ kpc' = "processing"
  /\ UNCHANGED << disk, jobSrc, playlistResult, kRedisClient, kConsumers, topic, kOffset, readySent, kPercent >>
  /\ UNCHANGED << listVars, bullVars, validation, healthVars >>

\* the run whose Promise.all is still pending
Awaited(r) == kpc = "processing" /\ r = kOffset

\* An encoder prints a time= line: the stdout / stderr handler computes the
\* overall progress from the shared counter and calls updateProgress.
encoderOutput(r, q, percent) ==
  /\ r <= Len(topic)
  /\ kEnc[r][q] = "running"
  /\ statusStore' = updateProgress(statusStore, topic[r], KafkaProgress(kCompleted[r], percent))
  /\ kPercent' = [kPercent EXCEPT ![r][q] = percent]
  /\ UNCHANGED << disk, jobSrc, playlistResult, kRedisClient, kConsumers, kpc, topic, kOffset,
                  kEnc, kCompleted, readySent >>
  /\ UNCHANGED << listVars, bullVars, validation, healthVars >>

\* ffmpeg.on('close') with code 0.  The counter is incremented, the progress
\* written, the promise of the quality resolved; when it was the last one of
\* the awaited run, transcodeVideo writes 'completed' and eachMessage sends
\* the 'ready' message.
encoderCloseOk(r, q) ==
  /\ r <= Len(topic)
  /\ kEnc[r][q] = "running"
  /\ LET j == topic[r]
         allDone == Awaited(r) /\ \A o \in QualityNames \ {q} : kEnc[r][o] = "ok"
         afterProgress ==
           updateProgress(statusStore, j, KafkaProgress(kCompleted[r] + 1, 0))
     IN /\ kEnc' = [kEnc EXCEPT ![r][q] = "ok"]
        /\ kPercent' = [kPercent EXCEPT ![r][q] = 0]
        /\ kCompleted' = [kCompleted EXCEPT ![r] = @ + 1]
        /\ disk' = [disk EXCEPT ![j].pl[q] = "complete"]
        /\ IF allDone
             THEN /\ statusStore' =
                       IF kRedisClient = "ready"
                         THEN [afterProgress EXCEPT ![j] =
                                 StatusValue("completed", 100, NoStatusError)]
                         ELSE afterProgress
                  /\ readySent' = [readySent EXCEPT ![j] = @ + 1]
                  /\ kOffset' = kOffset + 1
                  /\ kpc' = "idle"
             ELSE /\ statusStore' = afterProgress
                  /\ UNCHANGED << readySent, kOffset, kpc >>
  /\ UNCHANGED << jobSrc, playlistResult, kRedisClient, kConsumers, topic >>
  /\ UNCHANGED << listVars, bullVars, validation, healthVars >>

\* ffmpeg.on('close') with a non-zero code.  The first rejection of the
\* awaited run ends transcodeVideo: 'failed' is written and the error is
\* rethrown to eachMessage, which logs it.  The other encoders keep running.
encoderCloseFail(r, q) ==
  /\ r <= Len(topic)
  /\ kEnc[r][q] = "running"
  /\ LET j == topic[r] IN
       /\ kEnc' = [kEnc EXCEPT ![r][q] = "fail"]
       /\ kPercent' = [kPercent EXCEPT ![r][q] = 0]
       /\ disk' = [disk EXCEPT ![j].pl[q] = "partial"]
       /\ IF Awaited(r)
            THEN /\ statusStore' =
                      IF kRedisClient = "ready"
                        THEN [statusStore EXCEPT ![j] =
                                StatusValue("failed", 0,
                                  StatusError("none", "FFmpeg failed with exit code 1"))]
                        ELSE statusStore
                 /\ kOffset' = kOffset + 1
                 /\ kpc' = "idle"
            ELSE UNCHANGED << statusStore, kOffset, kpc >>
  /\ UNCHANGED << jobSrc, playlistResult, kRedisClient, kConsumers, topic, kCompleted, readySent >>
  /\ UNCHANGED << listVars, bullVars, validation, healthVars >>

KafkaNext ==
  \/ \E j \in ClientJobIds, src \in KafkaSources : produceJob(j, src)
  \/ kafkaStartWorker
  \/ \E connected \in BOOLEAN : startKafkaConsumer(connected)
  \/ retryTimer
  \/ eachMessage
  \/ transcodeVideoSpawn
  \/ \E r \in Runs, q \in QualityNames, percent \in KafkaPercents : encoderOutput(r, q, percent)
  \/ \E r \in Runs, q \in QualityNames : encoderCloseOk(r, q)
  \/ \E r \in Runs, q \in QualityNames : encoderCloseFail(r, q)

----------------------------------------------------------------------------
(* Specifications *)

\* the Bull queue with either worker class
BullInit == BullInitial(WorkerKinds, << >>)

\* the Bull queue left unused
BullIdle == BullInitial({"TranscodingWorker"}, << >>)

\* the Bull queue left unused; the Kafka worker takes the fixed list of
\* worker.ts for every job
KafkaJobs == BullInitial({"TranscodingWorker"}, Catalog)

\* the validator has not been called
NoValidation ==
  [outcome |-> "none", fsError |-> FALSE, asked |-> {}, valid |-> FALSE, issues |-> {}]

ValidatorIdle == validation = [j \in JobIds |-> NoValidation]

\* a worker whose binary is installed and whose queue connection is up
HealthIdle == HealthInitial({TRUE}, {"ready"})

\* a worker just constructed: the binary is installed and the queue's
\* connection is being opened
InitHealth ==
  /\ SharedInit /\ ListInit /\ BullIdle /\ KafkaInit /\ ValidatorIdle
  /\ HealthInitial({TRUE}, {"connecting"})

SpecHealth == InitHealth /\ [][HealthNext]_vars


InitList == SharedInit /\ ListInit /\ BullIdle /\ KafkaInit /\ ValidatorIdle /\ HealthIdle

InitBull == SharedInit /\ ListInit /\ BullInit /\ KafkaInit /\ ValidatorIdle /\ HealthIdle

InitKafka == SharedInit /\ ListInit /\ KafkaJobs /\ KafkaInit /\ ValidatorIdle /\ HealthIdle

SpecList == InitList /\ [][ListNext]_vars

\* The polling loop of startWorker runs processQueue for ever, an encoder
\* run ends, and a supervisor restarts a dead worker.
FairSpecList ==
  /\ SpecList
  /\ \A w \in Workers : WF_vars(startWorker(w))
  /\ \A w \in Workers : WF_vars(processQueue(w))
  /\ \A w \in Workers :
       WF_vars(\E ok \in BOOLEAN, failing \in QualityNames : listTranscodeSettle(w, ok, failing))
  /\ \A w \in Workers : WF_vars(workerRestart(w))

SpecBull == InitBull /\ [][BullNext]_vars

SpecKafka == InitKafka /\ [][KafkaNext]_vars

\* The worker process is scheduled, the broker is reachable in the end,
\* kafkajs hands every message to eachMessage, and every ffmpeg child
\* process exits.
FairSpecKafka ==
  /\ SpecKafka
  /\ WF_vars(kafkaStartWorker)
  /\ SF_vars(startKafkaConsumer(TRUE))
  /\ WF_vars(retryTimer)
  /\ WF_vars(eachMessage)
  /\ WF_vars(transcodeVideoSpawn)
  /\ \A r \in Runs, q \in QualityNames :
       WF_vars(encoderCloseOk(r, q) \/ encoderCloseFail(r, q))

\* The Kafka worker seen from its consumer: messages of one jobId are
\* published, the worker connects (or fails and retries), takes the
\* messages one at a time and runs the three encoders of each to their
\* exit.  The time= lines of the encoders, which only write progress values
\* to the Status Store, are followed in SpecKafka.
ConsumerNext ==
  \/ \E src \in KafkaSources : produceJob("j1", src)
  \/ kafkaStartWorker
  \/ \E connected \in BOOLEAN : startKafkaConsumer(connected)
  \/ retryTimer
  \/ eachMessage
  \/ transcodeVideoSpawn
  \/ \E r \in Runs, q \in QualityNames : encoderCloseOk(r, q)
  \/ \E r \in Runs, q \in QualityNames : encoderCloseFail(r, q)

\* The worker process is scheduled and its 5 s timer fires, the broker is
\* reachable in the end, kafkajs hands every message to eachMessage, and
\* every ffmpeg child process exits.
FairSpecConsumer ==
  /\ InitKafka /\ [][ConsumerNext]_vars
  /\ WF_vars(kafkaStartWorker)
  /\ SF_vars(startKafkaConsumer(TRUE))
  /\ WF_vars(retryTimer)
  /\ WF_vars(eachMessage)
  /\ WF_vars(transcodeVideoSpawn)
  /\ \A r \in Runs, q \in QualityNames :
       WF_vars(encoderCloseOk(r, q) \/ encoderCloseFail(r, q))

\* a validator that lets the file-system error escape
callValidateTranscodingOutputThrowing(j, qualities, fsError) ==
  /\ validation' = [validation EXCEPT ![j] =
        IF fsError
          THEN [outcome |-> "threw", fsError |-> TRUE, asked |-> NamesOf(qualities),
                valid |-> FALSE, issues |-> {}]
          ELSE LET result == validateTranscodingOutput(disk[j], qualities) IN
                 [outcome |-> "returned", fsError |-> FALSE, asked |-> NamesOf(qualities),
                  valid |-> result.valid, issues |-> result.issues]]
  /\ UNCHANGED << sharedVars, listVars, bullVars, kafkaVars, healthVars >>

\* FFmpegService.validateTranscodingOutput(outputPath, qualities) called on
\* the output directory of job j, at any moment; fsError: one of its
\* file-system calls rejects.
callValidateTranscodingOutput(j, qualities, fsError) ==
  /\ LET result == IF fsError THEN validateTranscodingOutputCatch
                    ELSE validateTranscodingOutput(disk[j], qualities)
     IN validation' = [validation EXCEPT ![j] =
          [outcome |-> "returned", fsError |-> fsError, asked |-> NamesOf(qualities),
           valid |-> result.valid, issues |-> result.issues]]
  /\ UNCHANGED << sharedVars, listVars, bullVars, kafkaVars, healthVars >>

\* TranscodingWorker processing jobs while the validator is called on their
\* output directories.
ValidatorNext ==
  \/ \E j \in BullJobIds, src \in Sources, quals \in RequestedLists : addJob(j, src, quals)
  \/ \E j \in BullJobIds : bullPromote(j)
  \/ \E j \in BullJobIds : processJobStart(j)
  \/ \E j \in BullJobIds : transcodeMultiQualityStart(j)
  \/ \E j \in BullJobIds, outcome \in EncoderOutcomes : transcodeQualityEnd(j, outcome)
  \/ \E j \in BullJobIds : generatePlaylistsFromSegments(j)
  \/ \E j \in BullJobIds : processJobValidate(j)
  \/ \E j \in BullJobIds, qualities \in RequestedLists, fsError \in BOOLEAN :
       callValidateTranscodingOutput(j, qualities, fsError)

SpecValidator == InitList /\ [][ValidatorNext]_vars

\* the source and the list of the jobs that fill the pool
PoolSource == [exists |-> TRUE, probe |-> TRUE, w |-> 1920, h |-> 1080]

PoolList == SubSeq(Catalog, 1, 1)

\* More jobs than slots: every job is submitted once to a queue that
\* TranscodingWorker processes.
PoolNext ==
  \/ \E j \in JobIds : addCalls[j] = 0 /\ addJob(j, PoolSource, PoolList)
  \/ \E j \in JobIds : bullPromote(j)
  \/ \E j \in JobIds : processJobStart(j)
  \/ \E j \in JobIds : transcodeMultiQualityStart(j)
  \/ \E j \in JobIds, outcome \in {"ok", "exit1"} : transcodeQualityEnd(j, outcome)
  \/ \E j \in JobIds : generatePlaylistsFromSegments(j)
  \/ \E j \in JobIds : processJobValidate(j)

SpecPool == InitList /\ [][PoolNext]_vars

\* The queue with encoders that can hang.  Bull keeps handing waiting and
\* promoted jobs to free slots, and a running encoder that does not hang
\* ends.
HangNext == BullNext \/ \E j \in BullJobIds : encoderHangs(j)

FairSpecBull == InitBull /\ [][HangNext]_vars /\ WF_vars(BullNext)

\* Output directories as encoder runs leave them: each quality directory
\* holds its playlist.m3u8 or does not.
HlsTrees ==
  {[EmptyTree EXCEPT !.pl = pl] : pl \in [QualityNames -> {"none", "complete"}]}

\* HLSPlaylistService.generatePlaylistsFromSegments called on its own, as a
\* caller of the service does, once per output directory.
callGeneratePlaylistsFromSegments(j, qualities) ==
  /\ ~playlistResult[j].returned
  /\ GeneratePlaylists(j, qualities)
  /\ UNCHANGED << statusStore, jobSrc >>
  /\ UNCHANGED << listVars, bullVars, kafkaVars, validation, healthVars >>

HlsNext ==
  \E j \in ClientJobIds, qualities \in RequestedLists :
    callGeneratePlaylistsFromSegments(j, qualities)

InitHls ==
  /\ statusStore = [j \in JobIds |-> NoStatus]
  /\ \E trees \in [ClientJobIds -> HlsTrees] :
       disk = [j \in JobIds |-> IF j \in ClientJobIds THEN trees[j] ELSE EmptyTree]
  /\ jobSrc = [j \in JobIds |-> NoSource]
  /\ playlistResult = [j \in JobIds |-> NoResult]
  /\ ListInit /\ BullIdle /\ KafkaInit /\ ValidatorIdle /\ HealthIdle

SpecHls == InitHls /\ [][HlsNext]_vars

----------------------------------------------------------------------------
(* Properties *)

\* the names the quality filter retains of a job's requested list
RetainedNames(j) == NamesOf(FilterQualities(jobSrc[j], jobQualities[j]))

\* the worker processes that are transcoding job j
Holders(j) == {w \in Workers : wpc[w] = "transcoding" /\ wJob[w] = j}

\* invocations of processJob after the first one
Reattempts(j) ==
  attemptsMade[j] - 1 + (IF bullState[j] \in {"active", "completed"} THEN 1 ELSE 0)

\* the last attempt of the job has failed and no attempt is running
LastAttemptFailed(j) ==
  attemptsMade[j] > 0 /\ bullState[j] \in {"delayed", "waiting", "failed"}

\* C1: a status entry that says 'completed' implies that master.m3u8
\* exists, that every retained quality has a complete playlist, and that the
\* master manifest references exactly the retained qualities.
C1_CompletedImpliesPackage ==
  \A j \in JobIds :
    statusStore[j].status = "completed" =>
      /\ disk[j].master
      /\ \A q \in RetainedNames(j) : disk[j].pl[q] = "complete"
      /\ disk[j].refs = RetainedNames(j)

\* C2: 'completed' and 'failed' are terminal: once a job's status is one of
\* them, no later write changes it.
C2_TerminalStatusIsFinal ==
  [][\A j \in JobIds :
       statusStore[j].status \in Terminal =>
         statusStore'[j].status = statusStore[j].status]_vars

\* C3: at no time are two workers processing the same jobId.
C3_OneWriterPerJob ==
  \A j \in JobIds : Cardinality(Holders(j)) <= 1

\* C4: submitting the same jobId twice never yields two queue-visible jobs
\* (queued or being processed) for that jobId.
C4_SubmissionIdempotent ==
  \A j \in JobIds : Occurrences(queueList, j) + Cardinality(Holders(j)) <= 1

\* C5: a job whose worker crashed before the job reached 'completed' or
\* 'failed' is eventually processed again by a worker.
C5_CrashedJobRedelivered ==
  \A j \in JobIds, w \in Workers :
    (wpc[w] = "crashed" /\ wJob[w] = j /\ statusStore[j].status \notin Terminal)
      ~> (\E w2 \in Workers : wpc[w2] = "transcoding" /\ wJob[w2] = j)

\* C6: every 'queued' acknowledgement stands for a job that was persisted in
\* the queue: it is still queued or it was delivered to a worker.
C6_AckImpliesPersisted ==
  \A j \in JobIds : ackCount[j] <= Occurrences(queueList, j) + delivered[j]

\* C7: a failing encoder is classified TRANSCODING_ERROR with retryable =
\* true, and a job whose attempts all fail that way ends failed only after 3
\* retries.
C7_EncoderFailureRetriedThreeTimes ==
  \A j \in BullJobIds :
    /\ lastError[j].message = ErrEncoder.text =>
         lastError[j].type = "TRANSCODING_ERROR" /\ lastError[j].retryable
    /\ (errorSeen[j] = {"TRANSCODING_ERROR"} /\ bullState[j] = "failed") =>
         Reattempts(j) = getRecoveryStrategy("TRANSCODING_ERROR").maxRetries

\* C8: after processJob failed with a non-retryable error the job stays
\* failed and processJob is not invoked for it again.
C8_NonRetryableStopsJob ==
  [][\A j \in BullJobIds :
       (LastAttemptFailed(j) /\ lastError[j].type # "none" /\ ~lastError[j].retryable)
         => (bullState'[j] # "active" /\ statusStore'[j].status = "failed")]_vars

\* C9: when all attempts of a job failed with one retryable class, the
\* number of re-attempts does not exceed the maxRetries of the class, and the
\* job is failed once that budget is consumed.
C9_RetryBudgetPerClass ==
  \A j \in BullJobIds :
    \A type \in {"DISK_SPACE_ERROR", "TRANSCODING_ERROR", "TIMEOUT_ERROR"} :
      (LastAttemptFailed(j) /\ errorSeen[j] = {type}) =>
        /\ Reattempts(j) <= getRecoveryStrategy(type).maxRetries
        /\ Reattempts(j) = getRecoveryStrategy(type).maxRetries => bullState[j] = "failed"

\* C10: after a failed attempt, once the worker is free for its next job,
\* the status entry of the job says 'failed' and carries the error.
C10_FailureReachesStatusStore ==
  \A j \in BullJobIds :
    LastAttemptFailed(j) =>
      statusStore[j].status = "failed" /\ statusStore[j].error # NoStatusError

\* C11: for a job of TranscodingWorker none of whose attempts has failed,
\* with an encoder whose percentages do not decrease, the progress written
\* while the status is 'processing' never decreases, 'processing' is
\* entered from 'queued' with progress 0, and 'completed' is entered from
\* 'processing' with progress 100.
C11_ProgressMonotoneQueuedToCompleted ==
  [][\A j \in BullJobIds :
       (workerKind = "TranscodingWorker" /\ errorSeen'[j] = {}) =>
         /\ ( /\ statusStore[j].status = "processing"
              /\ statusStore'[j].status = "processing"
              /\ (qIdx'[j] = qIdx[j] =>
                    ffmpegCommand'[j].percent >= ffmpegCommand[j].percent) )
            => statusStore'[j].progress >= statusStore[j].progress
         /\ (statusStore[j].status # "processing" /\ statusStore'[j].status = "processing")
            => (statusStore[j].status = "queued" /\ statusStore'[j].progress = 0)
         /\ (statusStore[j].status # "completed" /\ statusStore'[j].status = "completed")
            => (statusStore[j].status = "processing" /\ statusStore'[j].progress = 100)
    ]_vars

\* C12: in the Kafka worker, with one job message and encoders whose
\* percentages do not decrease, the progress written for the job while its
\* status is 'processing' never decreases.
C12_KafkaProgressMonotone ==
  [][\A j \in JobIds :
       ( /\ Len(topic') = 1
         /\ statusStore[j].status = "processing"
         /\ statusStore'[j].status = "processing"
         /\ \A r \in Runs, q \in QualityNames :
              kEnc'[r][q] = "running" => kPercent'[r][q] >= kPercent[r][q] )
       => statusStore'[j].progress >= statusStore[j].progress
    ]_vars

\* C13: from the acknowledgement of a submission until a worker takes the
\* job, the status query for the jobId answers 'queued'.
C13_QueuedAfterSubmission ==
  \A j \in JobIds :
    (ackCount[j] > 0 /\ delivered[j] = 0) => GetStatus(j) = "queued"

\* C14: once the filter of transcodeMultiQuality has run, the retained list
\* is the requested list restricted to the profiles with
\* sourceW / targetW >= 4/5 and sourceH / targetH >= 4/5, and it threw for an
\* empty list only if no profile passes; 1920x1080 retains 360p, 720p and
\* 1080p, 854x480 retains 360p alone.
C14_ResolverRetainsByTolerance ==
  \A j \in BullJobIds :
    LET Passes(q) == 5 * jobSrc[j].w >= 4 * q.w /\ 5 * jobSrc[j].h >= 4 * q.h
        expected == SelectSeq(jobQualities[j], Passes)
    IN /\ ppc[j] \in {"encode", "playlists", "validate"} =>
            /\ validQualities[j] = expected
            /\ (jobSrc[j].w = 1920 /\ jobSrc[j].h = 1080 /\ jobQualities[j] = Catalog)
                 => NamesOf(validQualities[j]) = {"360p", "720p", "1080p"}
            /\ (jobSrc[j].w = 854 /\ jobSrc[j].h = 480 /\ jobQualities[j] = Catalog)
                 => NamesOf(validQualities[j]) = {"360p"}
       /\ (bullState[j] # "absent" /\ lastError[j].message = ErrNoValid.text)
            => expected = << >>

\* C14 witness: the filter has run on 854x480 with the three profiles
\* requested and kept 360p alone.
C14_Witness ==
  \E j \in BullJobIds :
    /\ ppc[j] = "encode"
    /\ jobSrc[j].w = 854 /\ jobSrc[j].h = 480
    /\ jobQualities[j] = Catalog
    /\ NamesOf(validQualities[j]) = {"360p"}

\* C15: for a source that can be probed and a non-empty requested list the
\* resolver never ends with an empty retained set.
C15_RetainedSetNeverEmpty ==
  \A j \in BullJobIds :
    (bullState[j] # "absent" /\ jobSrc[j].exists /\ Len(jobQualities[j]) > 0)
      => lastError[j].message # ErrNoValid.text

\* C16: the failure for an empty filtered set is classified
\* VALIDATION_ERROR, not retryable.
C16_EmptySetIsValidationError ==
  \A j \in BullJobIds :
    lastError[j].message = ErrNoValid.text =>
      (lastError[j].type = "VALIDATION_ERROR" /\ ~lastError[j].retryable)

\* C17: while an encoder started by transcodeQuality runs, the width and
\* the height it was given do not exceed the source's.
C17_NeverUpscale ==
  \A j \in BullJobIds :
    ppc[j] = "encode" =>
      (ffmpegCommand[j].w <= jobSrc[j].w /\ ffmpegCommand[j].h <= jobSrc[j].h)

\* C17 witness: an encoder runs for a retained profile that is larger than
\* the source, with the source's resolution.
C17_Witness ==
  \E j \in BullJobIds :
    /\ ppc[j] = "encode"
    /\ validQualities[j][qIdx[j]].w > jobSrc[j].w
    /\ ffmpegCommand[j].w = jobSrc[j].w /\ ffmpegCommand[j].h = jobSrc[j].h

\* C18: the entries of a written master manifest are in ascending order of
\* bandwidth.
C18_MasterSortedByBandwidth ==
  \A j \in JobIds :
    \A a, b \in 1..Len(disk[j].entries) :
      a < b => disk[j].entries[a].bandwidth <= disk[j].entries[b].bandwidth

\* C19: after generatePlaylistsFromSegments the master manifest has one
\* entry per produced quality: the qualities it references are the keys of
\* the returned qualityPlaylists, each has its playlist.m3u8, and inside
\* transcodeMultiQuality their number is the size of the filtered list.
C19_MasterEntriesAreProducedQualities ==
  \A j \in JobIds :
    playlistResult[j].returned =>
      LET names == {disk[j].entries[i].name : i \in 1..Len(disk[j].entries)} IN
        /\ names = playlistResult[j].qualityPlaylists
        /\ \A n \in names : disk[j].pl[n] # "none"
        /\ Cardinality(names) = Len(disk[j].entries)
        /\ ppc[j] = "validate" => Len(disk[j].entries) = Len(validQualities[j])

\* C20: the BANDWIDTH of every entry of a master manifest is the bitrate of
\* its profile times 1000.
C20_BandwidthIsBitrateTimes1000 ==
  \A j \in JobIds :
    \A i \in 1..Len(disk[j].entries) :
      LET entry == disk[j].entries[i]
          profile == CHOOSE q \in {Catalog[k] : k \in 1..Len(Catalog)} : q.name = entry.name
      IN entry.bandwidth = profile.bitrate * 1000

C22_FreshTreeValidates ==
  \A j \in BullJobIds :
    (workerKind = "TranscodingWorker" /\ bullState[j] = "active" /\ ppc[j] = "validate") =>
      LET result == validateTranscodingOutput(disk[j], jobQualities[j]) IN
        result.valid /\ result.issues = {}

C24_EncoderSignatureIsTranscodingError ==
  \A j \in BullJobIds :
    /\ \A e \in {ErrEncoder, ErrCodecNotFound} :
         lastError[j].message = e.text =>
           lastError[j].type = "TRANSCODING_ERROR" /\ lastError[j].retryable
    /\ lastError[j] # NoError =>
         lastError[j].type \in {"FILE_NOT_FOUND", "DISK_SPACE_ERROR", "TRANSCODING_ERROR",
                                "TIMEOUT_ERROR", "UNKNOWN_ERROR"}

\* C25: an error whose message has none of the signatures is classified
\* UNKNOWN_ERROR, is retryable, has a recovery strategy of 1 retry, and a
\* job that failed with nothing else was run again exactly once.
C25_UnknownIsRetryableOnce ==
  \A j \in BullJobIds :
    /\ \A e \in {ErrProbe, ErrNoValid, ErrNoPlaylist} :
         lastError[j].message = e.text => lastError[j].type = "UNKNOWN_ERROR"
    /\ lastError[j].type = "UNKNOWN_ERROR" =>
         /\ lastError[j].retryable
         /\ getRecoveryStrategy(lastError[j].type).maxRetries = 1
    /\ (bullState[j] = "failed" /\ errorSeen[j] = {"UNKNOWN_ERROR"}) => Reattempts(j) = 1

\* C26: a job whose input file exists but cannot be probed does not fail:
\* none of its attempts fails and its status is never 'failed'.
C26_ProbeFailureDoesNotFailJob ==
  \A j \in BullJobIds :
    (workerKind = "TranscodingWorker" /\ jobSrc[j].exists /\ ~jobSrc[j].probe) =>
      /\ attemptsMade[j] = 0
      /\ bullState[j] # "failed"
      /\ statusStore[j].status # "failed"

\* C27: inside one invocation of transcodeMultiQuality the index of the
\* running encoder only moves to the next quality of the filtered list, and
\* only when the quality it leaves has its complete playlist; when an
\* encoder fails the invocation ends at once with the error handed to
\* processJob's catch and to Bull, no master manifest being written; the
\* master manifest is written only after the last quality of the list.
C27_EncoderDriverNeverRetries ==
  [][\A j \in BullJobIds :
       workerKind = "TranscodingWorker" =>
         /\ (ppc[j] = "encode" /\ qIdx'[j] # qIdx[j]) =>
              \/ /\ qIdx'[j] = qIdx[j] + 1
                 /\ ppc'[j] = "encode"
                 /\ disk'[j].pl[validQualities[j][qIdx[j]].name] = "complete"
                 /\ attemptsMade'[j] = attemptsMade[j]
              \/ /\ qIdx'[j] = 0
                 /\ ppc'[j] = "none"
                 /\ attemptsMade'[j] = attemptsMade[j] + 1
         /\ (ppc[j] = "encode" /\ ppc'[j] # "encode") =>
              \/ /\ ppc'[j] = "playlists"
                 /\ qIdx[j] = Len(validQualities[j])
                 /\ \A q \in NamesOf(validQualities[j]) : disk'[j].pl[q] = "complete"
              \/ /\ ppc'[j] = "none"
                 /\ attemptsMade'[j] = attemptsMade[j] + 1
                 /\ bullState'[j] \in {"delayed", "failed"}
                 /\ lastError'[j].message \in
                      {ErrEncoder.text, ErrNoSpace.text, ErrNoPlaylist.text,
                       ErrCodecNotFound.text}
                 /\ statusStore'[j].status = "failed"
                 /\ disk'[j].master = disk[j].master
                 /\ disk'[j].entries = disk[j].entries
         /\ (disk'[j].master # disk[j].master \/ disk'[j].entries # disk[j].entries) =>
              ppc[j] = "playlists"]_vars

\* the encoder of the second of three qualities failed in the first
\* attempt: the third was not started and there is no master manifest
C27_Witness ==
  \E j \in BullJobIds :
    /\ workerKind = "TranscodingWorker"
    /\ attemptsMade[j] = 1 /\ bullState[j] = "delayed"
    /\ lastError[j].message = ErrEncoder.text
    /\ jobQualities[j] = Catalog
    /\ disk[j].pl["360p"] = "complete"
    /\ disk[j].pl["720p"] = "partial"
    /\ disk[j].pl["1080p"] = "none"
    /\ ~disk[j].master

C29_UnhealthyWhenACheckFails ==
  (\/ ~binaryReachable
   \/ clientStatus # "ready"
   \/ lastHeartbeat > heartbeatThreshold) => ~getHealthStatus.healthy

\* C30: a job whose encoder hangs fails with a TIMEOUT_ERROR.
C30_HungEncoderTimesOut ==
  \A j \in BullJobIds :
    (ppc[j] = "hung") ~>
      (statusStore[j].status = "failed" /\ lastError[j].type = "TIMEOUT_ERROR")

\* the tree one successful run of the job's processor leaves in an empty
\* output directory
FreshTree(j) ==
  IF workerKind = "SimpleTranscodingWorker" THEN SimpleTranscoderTree(TRUE)
  ELSE LET valid == FilterQualities(jobSrc[j], jobQualities[j]) IN
         [master  |-> TRUE,
          refs    |-> NamesOf(valid),
          entries |-> createMasterPlaylistContent(valid),
          pl      |-> [q \in QualityNames |->
                         IF q \in NamesOf(valid) THEN "complete" ELSE "none"]]

C32_DequeuedJobReachesTerminal ==
  \A j \in ClientJobIds :
    (statusStore[j].status = "processing") ~> (statusStore[j].status \in Terminal)

\* C33: in the Kafka worker, for a jobId with one job message, no write
\* changes a status of 'completed' or 'failed' to 'processing'.
C33_KafkaTerminalWriteIsLast ==
  [][\A j \in ClientJobIds :
       (Occurrences(topic', j) = 1 /\ statusStore[j].status \in Terminal)
         => statusStore'[j].status # "processing"]_vars

\* C35: in the Kafka worker a 'ready' message for a jobId is sent only in
\* the step in which the last encoder of the message being processed has
\* exited with code 0, with the job's status 'completed' written; the
\* 'ready' messages of a jobId are never more than its delivered messages
\* whose three encoders exited with code 0.
C35_ReadyOnlyAfterCompleted ==
  /\ [](\A j \in ClientJobIds :
          readySent[j] <=
            Cardinality({r \in 1..(kOffset - 1) :
                           topic[r] = j /\ \A q \in QualityNames : kEnc[r][q] = "ok"}))
  /\ [][\A j \in ClientJobIds :
          readySent'[j] # readySent[j] =>
            /\ readySent'[j] = readySent[j] + 1
            /\ topic[kOffset] = j
            /\ \A q \in QualityNames : kEnc'[kOffset][q] = "ok"
            /\ statusStore'[j].status = "completed"]_vars

\* C34: a job of TranscodingWorker whose requested qualities are retained
\* only in part (a non-empty strict subset) and whose encodes all succeeded
\* leaves the validation of processJob as COMPLETED, in the queue and in
\* the Status Store.
C34_PartlyRetainedJobCompletes ==
  [][\A j \in BullJobIds :
       ( /\ workerKind = "TranscodingWorker"
         /\ ppc[j] = "validate" /\ ppc'[j] # "validate"
         /\ RetainedNames(j) # {}
         /\ RetainedNames(j) # NamesOf(jobQualities[j]) )
       => (bullState'[j] = "completed" /\ statusStore'[j].status = "completed")]_vars

\* C36: while an encoder of transcodeQuality runs, its resolution and
\* bitrate are the profile's when the source is at least the target in
\* width and in height; otherwise the resolution is the source's and the
\* bitrate is the profile's bitrate times the pixel ratio, rounded to the
\* nearest integer, and not above the profile's bitrate.
C36_AdjustedSettingsWithinProfile ==
  \A j \in BullJobIds :
    (workerKind = "TranscodingWorker" /\ ppc[j] = "encode") =>
      LET q == validQualities[j][qIdx[j]]
          src == jobSrc[j]
          c == ffmpegCommand[j]
          g == GCD(src.w * src.h, q.w * q.h)
          n == (src.w * src.h) \div g
          d == (q.w * q.h) \div g
          diff == 2 * (c.bitrate * d - q.bitrate * n)
      IN IF src.w < q.w \/ src.h < q.h
           THEN /\ c.w = src.w /\ c.h = src.h
                /\ diff <= d /\ 0 - diff <= d
                /\ c.bitrate <= q.bitrate
           ELSE c.w = q.w /\ c.h = q.h /\ c.bitrate = q.bitrate

\* C38: every progress value in the Status Store lies in 0..100.
C38_ProgressWithinRange ==
  \A j \in JobIds : statusStore[j].progress \in 0..100

\* C37: isHealthy is what the most recent performHealthCheck found: a step
\* that is not a health check leaves it as it is, and a health check sets
\* it to true exactly when the heartbeat is not older than the threshold
\* and the queue's client is 'ready' (isAvailable never fails), whatever it
\* was before; a check made while the heartbeat is at most one interval of
\* its timer old is decided by the client's status alone.
C37_UnhealthinessIsNotSticky ==
  [][ IF sinceCheck = checkInterval /\ sinceCheck' = 0
        THEN /\ isHealthy' = (lastHeartbeat <= heartbeatThreshold /\ clientStatus = "ready")
             /\ lastHeartbeat <= 1 => (isHealthy' = (clientStatus = "ready"))
        ELSE isHealthy' = isHealthy ]_vars

\* C37 witness: a worker a health check has marked unhealthy, on which the
\* next check is due with a fresh heartbeat and a client that is 'ready'.
C37_Witness ==
  /\ ~isHealthy
  /\ sinceCheck = checkInterval
  /\ lastHeartbeat <= 1
  /\ clientStatus = "ready"

\* C39: a worker whose connection to the broker failed stays alive and
\* calls startKafkaConsumer again; with a broker that is reachable in the
\* end it gets a running consumer and consumes every message of the jobs
\* topic, and never more than one consumer has been started.
C39_ConsumerRestartsAfterFailedConnect ==
  /\ [](kConsumers <= 1)
  /\ [][kpc = "backoff" => kpc' \in {"backoff", "connecting"}]_vars
  /\ (kpc = "backoff") ~> (kConsumers = 1)
  /\ \A r \in Runs : (kpc = "backoff" /\ r <= Len(topic)) ~> (kOffset > r)

\* C39 witness: the first connection failed, the timer is armed and a job
\* message is waiting on the topic.
C39_Witness ==
  /\ kpc = "backoff"
  /\ kConsumers = 0
  /\ Len(topic) > 0 /\ kOffset = 1

====
